---- MODULE Spec2Model ----
(***************************************************************************)
(* testcli (src/main.go): one Cmd handle wrapping os/exec, its two output  *)
(* buffers, the two pump goroutines Start() launches, the external         *)
(* process, the polling matcher retryStringTest, and the package-level     *)
(* variable pkgCmd with the package-level Run() and queries.               *)
(*                                                                         *)
(* Text is a sequence of one-character strings.  The caller is one test    *)
(* goroutine: it makes one call at a time, and t.Fatal (runtime.Goexit) or *)
(* a panic ends it.  The process, the pumps and the clock run concurrently *)
(* with it.                                                                *)
(***************************************************************************)
EXTENDS Integers, Sequences, FiniteSets, TLC

\* ------------------------------------------------------------------ bounds
\* Most bytes the process writes, both streams together.
MaxLen == 2

\* ------------------------------------------------------- program constants
\* time.NewTicker(100 * time.Millisecond), in ms
Interval == 100
\* time.After(1 * time.Second), in ms
Deadline == 1000

initialized == "initialized"
running == "running"
finished == "finished"

ErrUninitializedCmd == "You need to run this command first"
ErrCmdNotFinished == "Command is still executing"

\* ---------------------------------------------------------------- alphabet
Letters == {"a", "A"}
Chars == Letters \cup {"\n"}
Streams == {"stdout", "stderr"}

RECURSIVE StrsUpTo(_, _)
StrsUpTo(alphabet, n) ==
  IF n = 0 THEN {<<>>}
  ELSE LET shorter == StrsUpTo(alphabet, n - 1)
       IN  shorter \cup {Append(s, ch) : s \in shorter, ch \in alphabet}

\* What a process can have written to stdout and stderr when it has exited.
Outputs ==
  {o \in StrsUpTo(Chars, MaxLen) \X StrsUpTo(Chars, MaxLen) :
     Len(o[1]) + Len(o[2]) <= MaxLen}
\* The texts and literal patterns a test asks for.
Texts == {<<ch>> : ch \in Letters}

\* ------------------------------------------------------------ pure helpers
\* strings.ToLower, on one character and on a string
LowerCh(ch) == IF ch = "A" THEN "a" ELSE ch
ToLower(s) == [i \in 1..Len(s) |-> LowerCh(s[i])]

\* strings.Contains(s, sub)
Contains(s, sub) ==
  \E i \in 0..(Len(s) - Len(sub)) : SubSeq(s, i + 1, i + Len(sub)) = sub

\* regexp.MustCompile(regex).MatchString(s) for a literal regex (one without
\* metacharacters): an unanchored, case-sensitive search for the literal.
MatchString(regex, s) ==
  \E i \in 0..(Len(s) - Len(regex)) : SubSeq(s, i + 1, i + Len(regex)) = regex

IsPrefix(p, s) == Len(p) <= Len(s) /\ SubSeq(s, 1, Len(p)) = p

\* position of the first "\n" of s, 0 when there is none
RECURSIVE IndexNL(_, _)
IndexNL(s, i) ==
  IF i > Len(s) THEN 0 ELSE IF s[i] = "\n" THEN i ELSE IndexNL(s, i + 1)

\* bufio.ScanLines' dropCR: a line loses one trailing carriage return
DropCR(line) ==
  IF Len(line) > 0 /\ line[Len(line)] = "\r"
  THEN SubSeq(line, 1, Len(line) - 1) ELSE line

\* ------------------------------------------------------------------- state
VARIABLES
  status,     \* Cmd.status
  exitError,  \* Cmd.exitError, "nil" when unset
  output,     \* Cmd.stdout and Cmd.stderr: stream -> [content, mu]
  cmd,        \* Cmd.cmd (exec.Cmd): [ioSet, Process, closed]
  launchOK,   \* whether the operating system can start the program
  pkgCmd,     \* the package-level variable pkgCmd: NilCmd or the last Run's Cmd
  procExit,   \* how the external process ended, "none" while it has not
  written,    \* bytes the processes run so far have written, all together
  sent,       \* stream -> every byte the process has written to it, in order
  pipe,       \* stream -> bytes in the OS pipe, written and not yet read
  pump,       \* stream -> the pump goroutine: [pc, buf, tok]
  caller,     \* the test goroutine: idle, inside retryStringTest, or aborted
  ret         \* outcome of the caller's last completed call

vars == <<status, exitError, output, cmd, launchOK, pkgCmd, procExit, written,
          sent, pipe, pump, caller, ret>>

handle == <<status, exitError, output, cmd>>
world == <<launchOK, pkgCmd, procExit, written, sent, pipe, pump>>

\* exec.Cmd errors and exit outcomes
LaunchError == "exec: executable file not found"
AlreadyStarted == "exec: already started"
NotStarted == "exec: not started"
WaitAlreadyCalled == "exec: Wait was already called"
StdoutAlreadySet == "exec: Stdout already set"
ProcessDone == "os: process already finished"
NilProcess == "nil pointer dereference"
ExitErrorOf(how) == IF how = "killed" THEN "signal: killed" ELSE "exit status 1"

NoPump == [pc |-> "none", buf |-> <<>>, tok |-> <<>>]
Idle == [pc |-> "idle", op |-> "", out |-> "", fn |-> "", arg |-> <<>>,
         expected |-> <<>>, elapsed |-> 0, polls |-> 0, pre |-> FALSE]
Aborted == [Idle EXCEPT !.pc = "aborted"]

Ret(op, kind) == [op |-> op, kind |-> kind, err |-> "", val |-> FALSE,
                  text |-> <<>>, arg |-> <<>>]

\* var pkgCmd *Cmd: the nil pointer
NilCmd == [status |-> "nil", exitError |-> "nil",
           output |-> [s \in Streams |-> [content |-> <<>>, mu |-> "free"]]]

\* Command(t, name, arg...)
Init ==
  /\ status = initialized
  /\ exitError = "nil"
  /\ output = [s \in Streams |-> [content |-> <<>>, mu |-> "free"]]
  /\ cmd = [ioSet |-> FALSE, Process |-> "nil", closed |-> FALSE]
  /\ launchOK \in BOOLEAN
  /\ pkgCmd = NilCmd
  /\ procExit = "none"
  /\ written = 0
  /\ sent = [s \in Streams |-> <<>>]
  /\ pipe = [s \in Streams |-> <<>>]
  /\ pump = [s \in Streams |-> NoPump]
  /\ caller = Idle
  /\ ret = Ret("Command", "ok")

\* c.t.Fatal(err): the call returns nothing and the test goroutine exits
Fatal(op, err) ==
  /\ ret' = [Ret(op, "fatal") EXCEPT !.err = err]
  /\ caller' = Aborted

\* a run-time panic ends the test binary
Panic(op, err) ==
  /\ ret' = [Ret(op, "panic") EXCEPT !.err = err]
  /\ caller' = Aborted

\* a check that takes a started command for a finished one
validateIsFinishedLoose == status # initialized

\* func (c *Cmd) validateIsFinished(): whether it passes
validateIsFinished == status = finished

\* a check that only passes once the command has finished
validateHasStartedStrict == status = finished

\* func (c *Cmd) validateHasStarted(): whether it passes
validateHasStarted == status = running \/ status = finished

\* ------------------------------------------------------ the external process
ProcWrite(s, ch) ==
  /\ cmd.Process = "running"
  /\ written < MaxLen
  /\ written' = written + 1
  /\ sent' = [sent EXCEPT ![s] = Append(@, ch)]
  /\ pipe' = [pipe EXCEPT ![s] = Append(@, ch)]
  /\ UNCHANGED <<handle, launchOK, pkgCmd, procExit, pump, caller, ret>>

ProcExit(code) ==
  /\ cmd.Process = "running"
  /\ cmd' = [cmd EXCEPT !.Process = "zombie"]
  /\ procExit' = code
  /\ UNCHANGED <<status, exitError, output, launchOK, pkgCmd, written, sent,
                 pipe, pump, caller, ret>>

\* --------------------------------------------------------------- the pumps
\* a Read whose bytes never reach the scanner's buffer
PumpReadDiscarding(s) ==
  /\ pump[s].pc = "scan"
  /\ IndexNL(pump[s].buf, 1) = 0
  /\ ~cmd.closed
  /\ pipe[s] # <<>>
  /\ pump' = pump
  /\ pipe' = [pipe EXCEPT ![s] = <<>>]
  /\ UNCHANGED <<handle, launchOK, pkgCmd, procExit, written, sent, caller, ret>>

\* One Read of the pipe by the scanner: the bytes at hand join its buffer.
PumpRead(s) ==
  /\ pump[s].pc = "scan"
  /\ IndexNL(pump[s].buf, 1) = 0
  /\ ~cmd.closed
  /\ pipe[s] # <<>>
  /\ pump' = [pump EXCEPT ![s].buf = @ \o pipe[s]]
  /\ pipe' = [pipe EXCEPT ![s] = <<>>]
  /\ UNCHANGED <<handle, launchOK, pkgCmd, procExit, written, sent, caller, ret>>

\* scanner.Scan() returns and the loop body takes the mutex: the next
\* buffered line is the token; with no full line buffered, a Read that finds
\* the read end closed (an error) or the write end closed and the pipe empty
\* (end of data) makes the rest of the buffer the last token, and with
\* nothing buffered ends the loop: c.t.Fatal on the error, return otherwise.
PumpScan(s) ==
  LET buf == pump[s].buf
      nl == IndexNL(buf, 1)
      atEOF == cmd.closed \/ (pipe[s] = <<>> /\ cmd.Process \in {"zombie", "reaped"})
  IN
  /\ pump[s].pc = "scan"
  /\ IF nl > 0 \/ (atEOF /\ buf # <<>>) THEN
       /\ output[s].mu = "free"
       /\ output' = [output EXCEPT ![s].mu = "pump"]
       /\ pump' = [pump EXCEPT ![s] =
                     IF nl > 0
                     THEN [pc |-> "append", buf |-> SubSeq(buf, nl + 1, Len(buf)),
                           tok |-> DropCR(SubSeq(buf, 1, nl - 1))]
                     ELSE [pc |-> "append", buf |-> <<>>, tok |-> DropCR(buf)]]
     ELSE
       /\ atEOF
       /\ output' = output
       /\ pump' = [pump EXCEPT ![s].pc = IF cmd.closed THEN "fatal" ELSE "done"]
  /\ UNCHANGED <<status, exitError, cmd, launchOK, pkgCmd, procExit, written,
                 sent, pipe, caller, ret>>

\* an append that puts the new line in front of the content
PumpPrepend(s) ==
  /\ pump[s].pc = "append"
  /\ output' = [output EXCEPT ![s] =
                  [content |-> pump[s].tok \o <<"\n">> \o @.content,
                   mu |-> "free"]]
  /\ pump' = [pump EXCEPT ![s].pc = "scan", ![s].tok = <<>>]
  /\ UNCHANGED <<status, exitError, cmd, launchOK, pkgCmd, procExit, written,
                 sent, pipe, caller, ret>>

\* c.stdout.content += scanner.Text() + "\n"; c.stdout.mu.Unlock()
PumpAppend(s) ==
  /\ pump[s].pc = "append"
  /\ output' = [output EXCEPT ![s] =
                  [content |-> @.content \o pump[s].tok \o <<"\n">>,
                   mu |-> "free"]]
  /\ pump' = [pump EXCEPT ![s].pc = "scan", ![s].tok = <<>>]
  /\ UNCHANGED <<status, exitError, cmd, launchOK, pkgCmd, procExit, written,
                 sent, pipe, caller, ret>>

\* ------------------------------------------------------ the handle's calls
\* The values an unlocked store of `new` into c.<s>.content can leave behind.
\* Run() stores without taking the mutex: while a pump is inside its locked
\* read-modify-write the store can be overwritten by the pump's write-back.
RaceStore(s, new) ==
  IF output[s].mu = "pump" THEN {new, output[s].content} ELSE {new}

\* exec.Cmd.Run() with a failed launch reported as success
ExecRunQuiet ==
  IF cmd.Process # "nil" THEN
    {[err |-> AlreadyStarted, out |-> <<>>, errout |-> <<>>, ran |-> FALSE]}
  ELSE IF ~launchOK THEN
    {[err |-> "nil", out |-> <<>>, errout |-> <<>>, ran |-> FALSE]}
  ELSE
    {[err |-> e, out |-> o[1], errout |-> o[2], ran |-> TRUE] :
       e \in {"nil", ExitErrorOf("exit1")}, o \in Outputs}

\* exec.Cmd.Run() as called by Cmd.Run: the error it returns and the bytes it
\* leaves in outBuf and errBuf.  A command whose Process is set is refused; a
\* program that cannot be started fails; otherwise the process runs to its
\* end, with any output and either exit status.
ExecRun ==
  IF cmd.Process # "nil" THEN
    {[err |-> AlreadyStarted, out |-> <<>>, errout |-> <<>>, ran |-> FALSE]}
  ELSE IF ~launchOK THEN
    {[err |-> LaunchError, out |-> <<>>, errout |-> <<>>, ran |-> FALSE]}
  ELSE
    {[err |-> e, out |-> o[1], errout |-> o[2], ran |-> TRUE] :
       e \in {"nil", ExitErrorOf("exit1")}, o \in Outputs}

\* func (c *Cmd) Run()
Run ==
  /\ caller.pc = "idle"
  /\ \E r \in ExecRun :
       /\ exitError' = IF r.err # "nil" THEN r.err ELSE exitError
       /\ \E so \in RaceStore("stdout", r.out), se \in RaceStore("stderr", r.errout) :
            output' = [output EXCEPT !["stdout"].content = so,
                                     !["stderr"].content = se]
       /\ cmd' = IF r.ran THEN [cmd EXCEPT !.ioSet = TRUE, !.Process = "reaped"]
                 ELSE [cmd EXCEPT !.ioSet = TRUE]
       /\ procExit' = IF r.ran THEN (IF r.err = "nil" THEN "exit0" ELSE "exit1")
                      ELSE procExit
       /\ sent' = IF r.ran THEN [stdout |-> r.out, stderr |-> r.errout] ELSE sent
       /\ written' = IF r.ran THEN written + Len(r.out) + Len(r.errout)
                     ELSE written
  /\ status' = finished
  /\ ret' = Ret("Run", "ok")
  /\ UNCHANGED <<launchOK, pkgCmd, pipe, pump, caller>>

\* Start() from c.cmd.Start() on: the launch (a failed one closes both ends
\* of the pipes and is recorded in exitError), the two pump goroutines, and
\* c.status = running
StartProcess ==
  /\ cmd' = [ioSet |-> TRUE,
             Process |-> IF launchOK THEN "running" ELSE "nil",
             closed |-> cmd.closed \/ ~launchOK]
  /\ exitError' = IF launchOK THEN exitError ELSE LaunchError
  /\ pump' = [s \in Streams |-> [NoPump EXCEPT !.pc = "scan"]]
  /\ status' = running
  /\ ret' = Ret("Start", "ok")
  /\ UNCHANGED <<output, launchOK, pkgCmd, procExit, written, sent, pipe, caller>>

\* Start() without the refusal of c.cmd.StdoutPipe()
StartUnchecked ==
  /\ caller.pc = "idle"
  /\ StartProcess

\* func (c *Cmd) Start()
Start ==
  /\ caller.pc = "idle"
  /\ IF cmd.ioSet THEN
       \* c.cmd.StdoutPipe() fails once Stdout is set: c.t.Fatal(err)
       /\ Fatal("Start", StdoutAlreadySet)
       /\ UNCHANGED <<handle, world>>
     ELSE
       StartProcess

\* func (c *Cmd) Wait()
Wait ==
  /\ caller.pc = "idle"
  /\ IF ~validateHasStarted THEN
       /\ Fatal("Wait", ErrUninitializedCmd)
       /\ UNCHANGED <<handle, world>>
     ELSE IF cmd.Process \in {"nil", "reaped"} THEN
       \* c.cmd.Wait() refuses a command not started or already waited for
       /\ exitError' = IF cmd.Process = "nil" THEN NotStarted
                       ELSE WaitAlreadyCalled
       /\ status' = finished
       /\ ret' = Ret("Wait", "ok")
       /\ UNCHANGED <<output, cmd, world, caller>>
     ELSE
       \* blocks until the process has exited, then closes the pipes' read ends
       /\ cmd.Process = "zombie"
       /\ cmd' = [cmd EXCEPT !.Process = "reaped", !.closed = TRUE]
       /\ pipe' = [s \in Streams |-> <<>>]
       /\ exitError' = IF procExit = "exit0" THEN exitError
                       ELSE ExitErrorOf(procExit)
       /\ status' = finished
       /\ ret' = Ret("Wait", "ok")
       /\ UNCHANGED <<output, launchOK, pkgCmd, procExit, written, sent, pump,
                       caller>>

\* Kill() with the buffers reset as Run() resets them
KillAndReset ==
  /\ cmd' = [cmd EXCEPT !.Process = "zombie"]
  /\ procExit' = IF cmd.Process = "running" THEN "killed" ELSE procExit
  /\ status' = finished
  /\ ret' = Ret("Kill", "ok")
  /\ UNCHANGED <<exitError, launchOK, pkgCmd, written, sent, pipe, pump,
                 caller>>
  /\ output' = [s \in Streams |-> [output[s] EXCEPT !.content = <<>>]]

\* c.cmd.Process.Kill() on a process not yet waited for, and
\* c.status = finished: the process ends, killed unless it had exited
KillProcess ==
  /\ cmd' = [cmd EXCEPT !.Process = "zombie"]
  /\ procExit' = IF cmd.Process = "running" THEN "killed" ELSE procExit
  /\ status' = finished
  /\ ret' = Ret("Kill", "ok")
  /\ UNCHANGED <<exitError, output, launchOK, pkgCmd, written, sent, pipe, pump,
                 caller>>

\* func (c *Cmd) Kill()
Kill ==
  /\ caller.pc = "idle"
  /\ IF ~validateHasStarted THEN
       /\ Fatal("Kill", ErrUninitializedCmd)
       /\ UNCHANGED <<handle, world>>
     ELSE IF cmd.Process = "nil" THEN
       \* c.cmd.Process.Kill() on a nil *os.Process
       /\ Panic("Kill", NilProcess)
       /\ UNCHANGED <<handle, world>>
     ELSE IF cmd.Process = "reaped" THEN
       /\ Fatal("Kill", ProcessDone)
       /\ UNCHANGED <<handle, world>>
     ELSE
       KillProcess

\* ----------------------------------------------------------------- queries
\* func (c *Cmd) Error() error
Error ==
  /\ caller.pc = "idle"
  /\ IF validateIsFinished
     THEN ret' = [Ret("Error", "value") EXCEPT !.err = exitError] /\ caller' = caller
     ELSE Fatal("Error", ErrCmdNotFinished)
  /\ UNCHANGED <<handle, world>>

\* func (c *Cmd) Success() bool
Success ==
  /\ caller.pc = "idle"
  /\ IF validateIsFinished
     THEN ret' = [Ret("Success", "value") EXCEPT !.val = (exitError = "nil")]
          /\ caller' = caller
     ELSE Fatal("Success", ErrCmdNotFinished)
  /\ UNCHANGED <<handle, world>>

\* func (c *Cmd) Failure() bool
Failure ==
  /\ caller.pc = "idle"
  /\ IF validateIsFinished
     THEN ret' = [Ret("Failure", "value") EXCEPT !.val = (exitError # "nil")]
          /\ caller' = caller
     ELSE Fatal("Failure", ErrCmdNotFinished)
  /\ UNCHANGED <<handle, world>>

\* Stdout() and Stderr(): validate, then lock, read, unlock
Snapshot(op, s) ==
  /\ caller.pc = "idle"
  /\ IF validateHasStarted
     THEN /\ output[s].mu = "free"
          /\ ret' = [Ret(op, "value") EXCEPT !.text = output[s].content]
          /\ caller' = caller
     ELSE Fatal(op, ErrUninitializedCmd)
  /\ UNCHANGED <<handle, world>>

\* func (c *Cmd) Stdout() string
Stdout == Snapshot("Stdout", "stdout")

\* func (c *Cmd) Stderr() string
Stderr == Snapshot("Stderr", "stderr")

\* ---------------------------------------------------------------- matchers
\* the text handed on as given
ContainsExpectedAsGiven(str) == str

\* str = strings.ToLower(str): what StdoutContains hands to retryStringTest
ContainsExpected(str) == ToLower(str)

\* StdoutMatches compiles regex as given and hands it on unchanged
MatchesExpected(regex) == regex

\* the buffer tested as it is
PolledAsIs(content) == content

\* strings.ToLower(output.content): the text a poll tests
Polled(content) == ToLower(content)

\* testFunc(got, want): strings.Contains, or the closure over re
testFunc(fn, got, want) ==
  IF fn = "contains" THEN Contains(got, want) ELSE MatchString(want, got)

\* The validation of a matcher and its entry into retryStringTest, where the
\* ticker and the timeout timer are created (elapsed = 0).  pre records whether the buffer
\* held arg, letter case ignored, at the moment of the call.
Match(op, s, fn, arg, expected) ==
  /\ caller.pc = "idle"
  /\ IF validateHasStarted
     THEN /\ caller' = [Idle EXCEPT !.pc = "select", !.op = op, !.out = s,
                          !.fn = fn, !.arg = arg, !.expected = expected,
                          !.pre = Contains(ToLower(output[s].content), ToLower(arg))]
          /\ ret' = Ret(op, "pending")
     ELSE Fatal(op, ErrUninitializedCmd)
  /\ UNCHANGED <<handle, world>>

\* func (c *Cmd) StdoutContains(str string) bool
StdoutContains(str) ==
  Match("StdoutContains", "stdout", "contains", str, ContainsExpected(str))

\* func (c *Cmd) StderrContains(str string) bool
StderrContains(str) ==
  Match("StderrContains", "stderr", "contains", str, ContainsExpected(str))

\* func (c *Cmd) StdoutMatches(regex string) bool
StdoutMatches(regex) ==
  Match("StdoutMatches", "stdout", "matches", regex, MatchesExpected(regex))

\* func (c *Cmd) StderrMatches(regex string) bool
StderrMatches(regex) ==
  Match("StderrMatches", "stderr", "matches", regex, MatchesExpected(regex))

\* retryStringTest returns found
Return(found) ==
  /\ ret' = [Ret(caller.op, "value") EXCEPT !.val = found, !.arg = caller.arg]
  /\ caller' = Idle

\* The clock of one retryStringTest call.  caller.elapsed is the time, in
\* ms since the ticker and the timer were created, of the last tick taken.
\* Time passes only while the loop is blocked in select, and the loop takes
\* each tick before the next one fires (a poll lasts less than one
\* Interval).  NextTick is when ticker.C is next ready; the timer's channel
\* is ready at Deadline.  When the two instants coincide both cases of the
\* select are ready and either is taken.
NextTick == caller.elapsed + Interval

\* the *output retryStringTest was handed: a buffer of the handle, or a
\* buffer of the handle in the package-level variable
BufferOf(out) ==
  IF out \in Streams THEN output[out]
  ELSE IF out = "pkg.stdout" THEN pkgCmd.output["stdout"]
  ELSE pkgCmd.output["stderr"]

\* a poll that returns false as soon as the test fails
RetryTickGivingUp ==
  LET found == testFunc(caller.fn, Polled(BufferOf(caller.out).content),
                        caller.expected)
  IN
  /\ caller.pc = "select"
  /\ NextTick <= Deadline
  /\ BufferOf(caller.out).mu = "free"
  /\ Return(found)
  /\ UNCHANGED <<handle, world>>

\* case <-ticker.C: output.mu.Lock(); found := testFunc(...);
\* output.mu.Unlock(); if found == true { return true }
RetryTick ==
  LET found == testFunc(caller.fn, Polled(BufferOf(caller.out).content),
                        caller.expected)
  IN
  /\ caller.pc = "select"
  /\ NextTick <= Deadline
  /\ BufferOf(caller.out).mu = "free"
  /\ IF found THEN Return(TRUE)
     ELSE /\ caller' = [caller EXCEPT !.elapsed = NextTick, !.polls = @ + 1]
          /\ ret' = ret
  /\ UNCHANGED <<handle, world>>

\* a timer re-armed by every tick: never due while ticks keep coming
RetryTimeoutRearmed ==
  /\ caller.pc = "select"
  /\ NextTick >= Deadline + Deadline
  /\ Return(FALSE)
  /\ UNCHANGED <<handle, world>>

\* case <-timeout: return false
RetryTimeout ==
  /\ caller.pc = "select"
  /\ NextTick >= Deadline
  /\ Return(FALSE)
  /\ UNCHANGED <<handle, world>>

\* ------------------------------------------------- the package-level calls
NilPkgCmd == "nil pointer dereference"

\* exec.Cmd.Run() on the command of a handle Command() has just made: the
\* program cannot be started, or it runs to its end with any output and
\* either exit status
ExecRunFresh ==
  {[err |-> LaunchError, out |-> <<>>, errout |-> <<>>]} \cup
  {[err |-> e, out |-> o[1], errout |-> o[2]] :
     e \in {"nil", ExitErrorOf("exit1")},
     o \in {p \in Outputs : written + Len(p[1]) + Len(p[2]) <= MaxLen}}

\* the handle Command() makes, after its Run() with outcome r
RanCmd(r) ==
  [status |-> finished, exitError |-> r.err,
   output |-> [s \in Streams |->
                 [content |-> IF s = "stdout" THEN r.out ELSE r.errout,
                  mu |-> "free"]]]

\* the handle in the slot run again, as exec.Cmd.Run() answers for a command
\* already run, instead of a new handle
RanAgain(r) ==
  IF pkgCmd = NilCmd THEN RanCmd(r)
  ELSE [pkgCmd EXCEPT !.exitError = AlreadyStarted,
                      !.output = [s \in Streams |-> [content |-> <<>>, mu |-> "free"]]]

\* a package-level Run() that keeps the handle already in the slot
PkgRunReusing ==
  /\ caller.pc = "idle"
  /\ \E r \in ExecRunFresh :
       /\ pkgCmd' = RanAgain(r)
       /\ written' = written + Len(r.out) + Len(r.errout)
  /\ ret' = Ret("pkg.Run", "ok")
  /\ UNCHANGED <<handle, launchOK, procExit, sent, pipe, pump, caller>>

\* func Run(t, name, arg...): pkgCmd = Command(t, name, arg...); pkgCmd.Run()
PkgRun ==
  /\ caller.pc = "idle"
  /\ \E r \in ExecRunFresh :
       /\ pkgCmd' = RanCmd(r)
       /\ written' = written + Len(r.out) + Len(r.errout)
  /\ ret' = Ret("pkg.Run", "ok")
  /\ UNCHANGED <<handle, launchOK, procExit, sent, pipe, pump, caller>>

\* A package-level query: pkgCmd.t.Helper() dereferences pkgCmd, a nil
\* pointer until the first package-level Run(); then the method of pkgCmd
\* answers, with its validation of pkgCmd.status.
PkgQuery(op, needFinished, answer) ==
  /\ caller.pc = "idle"
  /\ IF pkgCmd = NilCmd THEN Panic(op, NilPkgCmd)
     ELSE IF needFinished /\ pkgCmd.status # finished
       THEN Fatal(op, ErrCmdNotFinished)
     ELSE IF pkgCmd.status \notin {running, finished}
       THEN Fatal(op, ErrUninitializedCmd)
     ELSE ret' = answer /\ caller' = caller
  /\ UNCHANGED <<handle, world>>

\* func Error() error
PkgError ==
  PkgQuery("pkg.Error", TRUE,
           [Ret("pkg.Error", "value") EXCEPT !.err = pkgCmd.exitError])

\* func Success() bool
PkgSuccess ==
  PkgQuery("pkg.Success", TRUE,
           [Ret("pkg.Success", "value") EXCEPT !.val = (pkgCmd.exitError = "nil")])

\* func Failure() bool
PkgFailure ==
  PkgQuery("pkg.Failure", TRUE,
           [Ret("pkg.Failure", "value") EXCEPT !.val = (pkgCmd.exitError # "nil")])

\* func Stdout() string
PkgStdout ==
  PkgQuery("pkg.Stdout", FALSE,
           [Ret("pkg.Stdout", "value") EXCEPT
              !.text = pkgCmd.output["stdout"].content])

\* func Stderr() string
PkgStderr ==
  PkgQuery("pkg.Stderr", FALSE,
           [Ret("pkg.Stderr", "value") EXCEPT
              !.text = pkgCmd.output["stderr"].content])

\* A package-level matcher: pkgCmd.t.Helper(), then the method of pkgCmd,
\* which enters retryStringTest on a buffer of pkgCmd.
PkgMatch(op, s, fn, arg, expected) ==
  /\ caller.pc = "idle"
  /\ IF pkgCmd = NilCmd THEN Panic(op, NilPkgCmd)
     ELSE IF pkgCmd.status \notin {running, finished}
       THEN Fatal(op, ErrUninitializedCmd)
     ELSE /\ caller' = [Idle EXCEPT !.pc = "select", !.op = op,
                          !.out = IF s = "stdout" THEN "pkg.stdout" ELSE "pkg.stderr",
                          !.fn = fn, !.arg = arg, !.expected = expected,
                          !.pre = Contains(ToLower(pkgCmd.output[s].content),
                                           ToLower(arg))]
          /\ ret' = Ret(op, "pending")
  /\ UNCHANGED <<handle, world>>

\* func StdoutContains(str string) bool
PkgStdoutContains(str) ==
  PkgMatch("pkg.StdoutContains", "stdout", "contains", str, ContainsExpected(str))

\* func StderrContains(str string) bool
PkgStderrContains(str) ==
  PkgMatch("pkg.StderrContains", "stderr", "contains", str, ContainsExpected(str))

\* func StdoutMatches(regex string) bool
PkgStdoutMatches(regex) ==
  PkgMatch("pkg.StdoutMatches", "stdout", "matches", regex, MatchesExpected(regex))

\* func StderrMatches(regex string) bool
PkgStderrMatches(regex) ==
  PkgMatch("pkg.StderrMatches", "stderr", "matches", regex, MatchesExpected(regex))

\* ----------------------------------------------------------- specification
Next ==
  \/ Run
  \/ Start
  \/ Wait
  \/ Kill
  \/ Error
  \/ Success
  \/ Failure
  \/ Stdout
  \/ Stderr
  \/ \E str \in Texts : StdoutContains(str)
  \/ \E str \in Texts : StderrContains(str)
  \/ \E regex \in Texts : StdoutMatches(regex)
  \/ \E regex \in Texts : StderrMatches(regex)
  \/ RetryTick
  \/ RetryTimeout
  \/ \E s \in Streams, ch \in Chars : ProcWrite(s, ch)
  \/ \E code \in {"exit0", "exit1"} : ProcExit(code)
  \/ \E s \in Streams : PumpRead(s)
  \/ \E s \in Streams : PumpScan(s)
  \/ \E s \in Streams : PumpAppend(s)

Spec == Init /\ [][Next]_vars

\* The Go scheduler runs every runnable goroutine, timers fire, and a held
\* sync.Mutex is released by its holder.
Fairness ==
  /\ WF_vars(RetryTick \/ RetryTimeout)
  /\ \A s \in Streams : WF_vars(PumpAppend(s))

FairSpec == Spec /\ Fairness

\* A handle used asynchronously: started with Start(), then waited for,
\* killed or queried while the process and the two pumps run.  Run() is the
\* synchronous mode and is not called on such a handle.
AsyncNext ==
  \/ Start
  \/ Wait
  \/ Kill
  \/ Error
  \/ Stdout
  \/ Stderr
  \/ \E str \in Texts : StdoutContains(str)
  \/ RetryTick
  \/ RetryTimeout
  \/ \E s \in Streams, ch \in Chars : ProcWrite(s, ch)
  \/ \E code \in {"exit0", "exit1"} : ProcExit(code)
  \/ \E s \in Streams : PumpRead(s)
  \/ \E s \in Streams : PumpScan(s)
  \/ \E s \in Streams : PumpAppend(s)

AsyncSpec == Init /\ [][AsyncNext]_vars

\* The Go scheduler runs the pump goroutines: a pump that can read, scan or
\* append does so, and the matcher's select takes a ready case.
AsyncFairness ==
  /\ WF_vars(RetryTick \/ RetryTimeout)
  /\ \A s \in Streams :
       WF_vars(PumpRead(s)) /\ WF_vars(PumpScan(s)) /\ WF_vars(PumpAppend(s))

AsyncFairSpec == AsyncSpec /\ AsyncFairness

\* The package-level calls, made while a handle of the test's own has been
\* started with Start() and its process and pumps run.
PkgNext ==
  \/ PkgRun
  \/ PkgError
  \/ PkgSuccess
  \/ PkgFailure
  \/ PkgStdout
  \/ PkgStderr
  \/ \E str \in Texts : PkgStdoutContains(str)
  \/ \E str \in Texts : PkgStderrContains(str)
  \/ \E regex \in Texts : PkgStdoutMatches(regex)
  \/ \E regex \in Texts : PkgStderrMatches(regex)
  \/ RetryTick
  \/ RetryTimeout
  \/ Start
  \/ Stdout
  \/ \E s \in Streams, ch \in Chars : ProcWrite(s, ch)
  \/ \E code \in {"exit0", "exit1"} : ProcExit(code)
  \/ \E s \in Streams : PumpRead(s)
  \/ \E s \in Streams : PumpScan(s)
  \/ \E s \in Streams : PumpAppend(s)

PkgSpec == Init /\ [][PkgNext]_vars

\* ------------------------------------------------------------------ claims
ResultOps == {"Error", "Success", "Failure"}
SnapshotOps == {"Stdout", "Stderr"}
ContainsOps == {"StdoutContains", "StderrContains"}
MatchesOps == {"StdoutMatches", "StderrMatches"}
StreamOf(op) == IF op \in {"Stdout", "StdoutContains", "StdoutMatches"}
                THEN "stdout" ELSE "stderr"

\* s contains sub, letter case ignored
ContainsFold(s, sub) == Contains(ToLower(s), ToLower(sub))

\* a step in which the caller makes one of the calls ops
CallOf(ops) == caller.pc = "idle" /\ ret' # ret /\ ret'.op \in ops

\* a step in which retryStringTest returns
MatcherReturns == (RetryTick \/ RetryTimeout) /\ caller'.pc = "idle"

\* C1: status moves only initialized->finished, initialized->running or
\* running->finished; it never goes back from finished, nor from running to
\* initialized.
C1_StatusMonotonic ==
  [][status' # status =>
       <<status, status'>> \in {<<initialized, finished>>,
                                <<initialized, running>>,
                                <<running, finished>>}]_vars

\* C1 witness: Start() was called on a finished handle, which stayed finished.
C1_Witness ==
  ret.op = "Start" /\ ret.kind = "fatal" /\ status = finished

\* C2 (as claimed): exitError is unset while status is not finished, and no
\* step changes it once status is finished.
C2_ExitErrorSetOnce ==
  /\ [](status # finished => exitError = "nil")
  /\ [][status = finished => exitError' = exitError]_vars

\* C3: Error(), Success() and Failure() return a value exactly when status
\* is finished; otherwise they abort with ErrCmdNotFinished, returning
\* nothing and ending the caller.  (The last call being one of the three,
\* status is still what it was at the call: a returned value leaves the
\* handle finished, and an aborted caller makes no further call.)
C3_ResultQueriesNeedFinished ==
  ret.op \in ResultOps =>
    \/ ret.kind = "value" /\ status = finished
    \/ /\ ret.kind = "fatal"
       /\ ret.err = ErrCmdNotFinished
       /\ status # finished
       /\ caller.pc = "aborted"

\* C3 witness: a result query aborted on a running handle.
C3_Witness ==
  ret.op \in ResultOps /\ ret.kind = "fatal" /\ status = running

\* C4: the snapshot accessors and the four matchers are accepted exactly when
\* status is running or finished; on an initialized handle they abort with
\* ErrUninitializedCmd and leave every field of the handle as it was.
C4_OutputQueriesNeedStart ==
  [][CallOf(SnapshotOps \cup ContainsOps \cup MatchesOps) =>
       /\ (ret'.kind \in {"value", "pending"}) <=> (status \in {running, finished})
       /\ status = initialized =>
            /\ ret'.kind = "fatal"
            /\ ret'.err = ErrUninitializedCmd
            /\ caller'.pc = "aborted"
            /\ UNCHANGED handle]_vars

\* C4 witness: a matcher aborted on an initialized handle.
C4_Witness ==
  /\ ret.op \in ContainsOps \cup MatchesOps \cup SnapshotOps
  /\ ret.kind = "fatal"
  /\ ret.err = ErrUninitializedCmd
  /\ status = initialized

\* C5: a *Contains call made when the buffer already holds the text, letter
\* case ignored, returns true; on a handle filled by Run() (no pump) it
\* does so on its first poll.
C5_PresentTextIsFound ==
  [][MatcherReturns /\ caller.fn = "contains" /\ caller.pre =>
       /\ ret'.val = TRUE
       /\ pump[caller.out].pc = "none" => caller.polls = 0]_vars

\* C5 witness: StdoutContains returned true while the process was running.
C5_Witness ==
  /\ ret.op = "StdoutContains" /\ ret.kind = "value" /\ ret.val = TRUE
  /\ cmd.Process = "running"
  /\ status = running

\* C6: a retryStringTest call cannot go on for ever.  While it is in its
\* loop it has polled at most Deadline / Interval = 10 times, its clock has
\* not passed the deadline, and it is never stuck: a case of the select is
\* ready, or the pump holding the mutex is about to release it.  Every turn
\* of the loop that does not return moves the clock forward.  The loop ends
\* only by returning a value, and it returns false only once the deadline
\* has fired.
C6_MatcherTerminates ==
  /\ [](caller.pc = "select" =>
          /\ caller.polls <= Deadline \div Interval
          /\ caller.elapsed = caller.polls * Interval
          /\ caller.elapsed <= Deadline
          /\ \/ ENABLED RetryTick
             \/ ENABLED RetryTimeout
             \/ /\ output[caller.out].mu = "pump"
                /\ ENABLED PumpAppend(caller.out))
  /\ [][(RetryTick \/ RetryTimeout) =>
          /\ caller'.pc = "select" => caller'.elapsed > caller.elapsed
          /\ caller'.pc # "select" => caller'.pc = "idle" /\ ret'.kind = "value"
          /\ ret'.kind = "value" /\ ret'.val = FALSE =>
               caller.elapsed + Interval >= Deadline]_vars

\* C6 witness: a matcher returned false while the process was still running
\* and its pump was at work.
C6_Witness ==
  /\ ret.op \in ContainsOps \cup MatchesOps
  /\ ret.kind = "value" /\ ret.val = FALSE
  /\ cmd.Process = "running"
  /\ pump[StreamOf(ret.op)].pc = "scan"
  /\ written > 0

\* C6, as a liveness property of FairSpec: every call of the matcher returns.
MatcherAlwaysReturns == (caller.pc = "select") ~> (caller.pc = "idle")

\* C7: *Contains ignores letter case.  On a handle filled by Run() the
\* result is exactly whether the buffer holds the text, case ignored; on a
\* handle with pumps a true result means the buffer holds it, case ignored.
C7_ContainsIgnoresCase ==
  ret.op \in ContainsOps /\ ret.kind = "value" =>
    LET s == StreamOf(ret.op) IN
    /\ pump[s].pc = "none" => ret.val = ContainsFold(output[s].content, ret.arg)
    /\ ret.val => ContainsFold(output[s].content, ret.arg)

\* C7 witness: an upper-case text was found in a buffer that holds it in
\* lower case only.
C7_Witness ==
  /\ ret.op = "StderrContains" /\ ret.kind = "value" /\ ret.val = TRUE
  /\ ret.arg = <<"A">>
  /\ Contains(output["stderr"].content, <<"a">>)
  /\ ~Contains(output["stderr"].content, <<"A">>)

\* C8 (as claimed): *Matches ignores letter case, for a literal pattern: on a
\* handle filled by Run() the result is whether the buffer holds the
\* pattern, case ignored.
C8_MatchesIgnoresCase ==
  ret.op \in MatchesOps /\ ret.kind = "value" =>
    LET s == StreamOf(ret.op) IN
    pump[s].pc = "none" => ret.val = ContainsFold(output[s].content, ret.arg)

\* C9: Kill() on a running handle leaves each buffer with its content from
\* before the call as a prefix.
C9_KillKeepsOutput ==
  [][Kill /\ status = running =>
       \A s \in Streams : IsPrefix(output[s].content, output'[s].content)]_vars

\* C9 witness: Kill() returned on a handle that had captured output.
C9_Witness ==
  /\ ret.op = "Kill" /\ ret.kind = "ok"
  /\ status = finished
  /\ output["stdout"].content # <<>>

\* C10 (as claimed): once status is finished no step changes the content of
\* a buffer.
C10_FrozenWhenFinished ==
  [][status = finished =>
       \A s \in Streams : output'[s].content = output[s].content]_vars

\* C11: Run() on an initialized handle returns normally with status finished
\* whether the program exits zero, exits nonzero or cannot be launched, and
\* leaves exitError set exactly when the launch failed or the exit was
\* nonzero.  On a finished handle Failure() answers exitError # nil, Success()
\* answers exitError = nil and Error() answers exitError, so after that Run()
\* Failure() is true exactly in those two cases, Error() is then non-nil, and
\* Success() is the negation of Failure().
C11_RunAlwaysFinishes ==
  /\ [][Run /\ status = initialized =>
          /\ status' = finished
          /\ ret'.kind = "ok" /\ caller'.pc = "idle"
          /\ (exitError' # "nil") <=> (~launchOK \/ procExit' = "exit1")]_vars
  /\ [][CallOf(ResultOps) /\ status = finished =>
          /\ ret'.kind = "value"
          /\ ret'.op = "Failure" => ret'.val = (exitError # "nil")
          /\ ret'.op = "Success" => ret'.val = (exitError = "nil")
          /\ ret'.op = "Error" => ret'.err = exitError]_vars

\* C11 witness: Run() of a program that cannot be launched was the only call
\* to start the handle, and Failure() then answered true.
C11_Witness ==
  /\ ret.op = "Failure" /\ ret.kind = "value" /\ ret.val = TRUE
  /\ ~launchOK /\ exitError = LaunchError
  /\ status = finished
  /\ pump["stdout"].pc = "none"

\* C12 (as claimed): Wait() on a handle that Start() never started aborts and
\* leaves status and exitError as they were; Wait() on a running handle
\* returns with status finished and exitError telling how the process
\* exited.
C12_WaitOnlyAfterStart ==
  [][Wait =>
       /\ pump["stdout"].pc = "none" =>
            /\ ret'.kind = "fatal"
            /\ UNCHANGED <<status, exitError>>
       /\ status = running =>
            /\ status' = finished
            /\ ret'.kind = "ok"
            /\ cmd.Process = "zombie" =>
                 ((exitError' # "nil") <=> (procExit # "exit0"))]_vars

\* C13 (as claimed): Kill() on a running handle returns normally with status
\* finished, whether or not the launch made by Start() succeeded; Kill() on
\* an initialized handle aborts with ErrUninitializedCmd and leaves status
\* initialized.
C13_KillAlwaysFinishes ==
  [][Kill =>
       /\ status = running =>
            /\ ret'.kind = "ok"
            /\ caller'.pc = "idle"
            /\ status' = finished
       /\ status = initialized =>
            /\ ret'.kind = "fatal"
            /\ ret'.err = ErrUninitializedCmd
            /\ status' = initialized]_vars

\* positions of the line ends of s, and s up to the end of its n-th line
LineEnds(s) == {i \in 1..Len(s) : s[i] = "\n"}
FirstLines(s, n) ==
  SubSeq(s, 1, CHOOSE i \in LineEnds(s) :
                 Cardinality({j \in LineEnds(s) : j <= i}) = n)

AfterStartWait ==
  /\ cmd.Process = "reaped"
  /\ procExit \in {"exit0", "exit1"}
  /\ exitError # WaitAlreadyCalled

\* C15 (as claimed): after Start() and Wait(), Error() answers the process's
\* exit outcome, and once the stdout pump has reached the end of its data the
\* stdout buffer holds every line the process wrote before exiting, so that
\* StdoutContains(line) finds it: Wait() loses no output.
C15_WaitLosesNoOutput ==
  AfterStartWait =>
    /\ ret.op = "Error" /\ ret.kind = "value" =>
         ret.err = (IF procExit = "exit0" THEN "nil" ELSE ExitErrorOf(procExit))
    /\ pump["stdout"].pc \in {"done", "fatal"} =>
         \A str \in Texts :
           Contains(sent["stdout"], Append(str, "\n")) =>
             ContainsFold(output["stdout"].content, str)

\* p with its last line ended: what the pump makes of the bytes p it has read
\* when the data ends there
Terminated(p) ==
  IF p = <<>> \/ p[Len(p)] = "\n" THEN p ELSE Append(p, "\n")

\* C17: on a handle used asynchronously each buffer is, at every moment, the
\* lines of an initial part of what the process wrote to that stream, in the
\* order written; no step shortens or rewrites a buffer, so a snapshot that
\* Stdout()/Stderr() returned stays a prefix of the buffer and of every later
\* snapshot; and an append by the pump of one stream leaves the other
\* stream's buffer alone.
C17_BuffersGrowInOrder ==
  /\ [](\A s \in Streams :
          \E n \in 0..Len(sent[s]) :
            output[s].content = Terminated(SubSeq(sent[s], 1, n)))
  /\ [](ret.op \in SnapshotOps /\ ret.kind = "value" =>
          IsPrefix(ret.text, output[StreamOf(ret.op)].content))
  /\ [][\A s \in Streams :
          /\ IsPrefix(output[s].content, output'[s].content)
          /\ PumpAppend(s) =>
               \A o \in Streams \ {s} : output'[o] = output[o]]_vars
  /\ [][CallOf(SnapshotOps) /\ ret'.kind = "value" =>
          ret'.text = output[StreamOf(ret'.op)].content]_vars

\* C17 witness: the stdout buffer has grown by a second line since Stdout()
\* returned a snapshot holding the first.
C17_Witness ==
  /\ ret.op = "Stdout" /\ ret.kind = "value"
  /\ ret.text # <<>>
  /\ Len(output["stdout"].content) > Len(ret.text)
  /\ IsPrefix(ret.text, output["stdout"].content)

PkgResultOps == {"pkg.Error", "pkg.Success", "pkg.Failure"}
PkgSnapshotOps == {"pkg.Stdout", "pkg.Stderr"}
PkgContainsOps == {"pkg.StdoutContains", "pkg.StderrContains"}
PkgMatchesOps == {"pkg.StdoutMatches", "pkg.StderrMatches"}
PkgStreamOf(op) ==
  IF op \in {"pkg.Stdout", "pkg.StdoutContains", "pkg.StdoutMatches"}
  THEN "stdout" ELSE "stderr"

\* a step in which a package-level Run() returns
PkgRunReturns ==
  /\ caller.pc = "idle"
  /\ ret'.op = "pkg.Run"
  /\ ret.op # "pkg.Run" \/ pkgCmd' # pkgCmd

\* C16: a package-level Run() puts in the slot a handle that is finished and
\* holds the outcome and the output of that run alone (nothing of the handle
\* that was in the slot before, and never the refusal exec gives a command
\* run twice), and it changes no field of the test's own handle, even one
\* that is running.  Once a package-level Run() has been made, every
\* package-level query answers from the handle in the slot: Error, Success
\* and Failure from its exitError, Stdout and Stderr from its buffers, the
\* matchers from a poll of its buffer, and none of them changes the slot or
\* the other handle.
C16_SlotHoldsLastRun ==
  /\ [][PkgRunReturns =>
          /\ pkgCmd' # NilCmd
          /\ pkgCmd'.status = finished
          /\ pkgCmd'.exitError \in {"nil", ExitErrorOf("exit1"), LaunchError}
          /\ ret'.kind = "ok" /\ caller'.pc = "idle"
          /\ UNCHANGED <<handle, sent, pipe, pump, procExit>>]_vars
  /\ [][pkgCmd' # pkgCmd => PkgRunReturns]_vars
  /\ [][CallOf(PkgResultOps \cup PkgSnapshotOps) /\ pkgCmd # NilCmd =>
          /\ ret'.kind = "value"
          /\ ret'.op = "pkg.Error" => ret'.err = pkgCmd.exitError
          /\ ret'.op = "pkg.Success" => ret'.val = (pkgCmd.exitError = "nil")
          /\ ret'.op = "pkg.Failure" => ret'.val = (pkgCmd.exitError # "nil")
          /\ ret'.op \in PkgSnapshotOps =>
               ret'.text = pkgCmd.output[PkgStreamOf(ret'.op)].content
          /\ UNCHANGED handle]_vars
  /\ [][MatcherReturns /\ caller.op \in PkgContainsOps \cup PkgMatchesOps =>
          LET buf == pkgCmd.output[PkgStreamOf(caller.op)].content IN
          /\ caller.op \in PkgContainsOps =>
               ret'.val = ContainsFold(buf, caller.arg)
          /\ ret'.val => ContainsFold(buf, caller.arg)
          /\ UNCHANGED handle]_vars

\* C16 witness: after a second package-level Run(), the package-level
\* Stdout() returned the output of that run while the test's own handle was
\* running with other output in its buffer.
C16_Witness ==
  /\ ret.op = "pkg.Stdout" /\ ret.kind = "value"
  /\ ret.text = pkgCmd.output["stdout"].content
  /\ ret.text # <<>>
  /\ status = running
  /\ output["stdout"].content # <<>>
  /\ output["stdout"].content # ret.text

\* C18 (as claimed): a buffer's content is written only by a goroutine that
\* holds the buffer's mutex at that moment, and a mutex that is held is
\* about to be released by its holder.
C18_AccessUnderMutex ==
  /\ [][\A s \in Streams :
          output'[s].content # output[s].content => output[s].mu # "free"]_vars
  /\ [](\A s \in Streams :
          output[s].mu # "free" => pump[s].pc = "append")

\* the predicate of the matcher call in progress, on the buffer as it is now
Satisfied ==
  testFunc(caller.fn, Polled(output[caller.out].content), caller.expected)

\* C19: every turn of the matcher's loop is one of three: a poll that sees
\* the predicate satisfied and returns true at once; a poll that sees it
\* unsatisfied and stays in the loop with one more failed evaluation
\* counted; or the return of false, with the deadline due and at least one
\* poll made, all of them failed.  No turn changes a buffer, the status or
\* exitError.
C19_MatcherResult ==
  [][caller.pc = "select" /\ caller' # caller =>
       /\ \/ /\ Satisfied /\ caller.elapsed + Interval <= Deadline
             /\ caller'.pc = "idle"
             /\ ret'.kind = "value" /\ ret'.val = TRUE
          \/ /\ ~Satisfied /\ caller.elapsed + Interval <= Deadline
             /\ caller'.pc = "select"
             /\ caller'.polls = caller.polls + 1
             /\ ret' = ret
          \/ /\ caller.elapsed + Interval >= Deadline /\ caller.polls >= 1
             /\ caller'.pc = "idle"
             /\ ret'.kind = "value" /\ ret'.val = FALSE
       /\ UNCHANGED <<status, exitError, output>>]_vars

\* C19 witness: StdoutMatches returned true on output that arrived through
\* the pump while the process was running.
C19_Witness ==
  /\ ret.op = "StdoutMatches" /\ ret.kind = "value" /\ ret.val = TRUE
  /\ status = running /\ cmd.Process = "running"
  /\ pump["stdout"].pc # "none"

\* C20 (as claimed): after Start() and Wait(), once the stdout pump has read
\* its stream to the end of the data, the stdout buffer is what Run() stores
\* for a process with the same output: the bytes the process wrote to
\* stdout, as they are (c.stdout.content = string(outBuf.Bytes())).
C20_StartWaitEqualsRun ==
  AfterStartWait /\ pump["stdout"].pc = "done" =>
    output["stdout"].content = sent["stdout"]

\* C21 (as claimed): a package-level query made while the slot is still
\* empty (no package-level Run() yet) ends as the per-handle query does on
\* an initialized handle: c.t.Fatal with one of the two usage errors, and
\* not a crash.
C21_EmptySlotIsUsageError ==
  /\ ret.op \in PkgResultOps \cup PkgSnapshotOps \cup PkgContainsOps
                  \cup PkgMatchesOps
  /\ pkgCmd = NilCmd
  => /\ ret.kind = "fatal"
     /\ ret.err \in {ErrUninitializedCmd, ErrCmdNotFinished}
     /\ caller.pc = "aborted"

====
